---- MODULE Spec2Model ----
(***************************************************************************)
(* Model of Rocket's request body type `Data` (core/lib/src/data/data.rs): *)
(* the peek buffer filled at construction, the one-shot `open`, the       *)
(* stream_to helpers and the drain guard run by `Drop`, over a transport   *)
(* made of hyper's buffered bytes chained with the network stream.        *)
(***************************************************************************)
EXTENDS Integers, Sequences, FiniteSets, TLC

\* ------------------------------------------------------------------------
\* Program constants
\* ------------------------------------------------------------------------
PEEK_BYTES == 512

\* The bounded effort of the drain guard (bytes read and discarded at most).
FLUSH_LEN == 1024

\* ------------------------------------------------------------------------
\* Bounds of the model
\* ------------------------------------------------------------------------
\* Small body lengths 0..MaxSmall are tried next to the lengths around 512.
MaxSmall == 1
\* Bytes of a following message already on the wire behind the body.
MaxExtra == 3
\* Body bytes hyper had already buffered when the body reader was handed over.
MaxPre == 100
\* Bytes before `pos` in hyper's buffer (already parsed header bytes).
HdrLen == 2
\* The most bytes one read of the network stream returns.
SegLen == 400
\* Payload bytes per chunk of a chunked body.
ChunkLen == 300
\* Size of the buffer the application passes to one read of the stream.
AppRead == 700
\* Bytes the writer of stream_to accepts before it fails (failing writer).
WriterCap == 600
\* Size of the buffer io::copy reads into.
CopyBuf == 8192

Min(a, b) == IF a < b THEN a ELSE b

\* F applied to the value of v, computed once.
With(v, F(_)) == CHOOSE y \in {F(x) : x \in {v}} : TRUE

\* The line ending of the chunked framing.
CRLF == <<13, 10>>

\* ------------------------------------------------------------------------
\* Inputs: bodies and their wire framing
\* ------------------------------------------------------------------------
Kinds == {"Sized", "Chunked", "Eof", "Empty"}

\* Body lengths: the small ones, the ones around the peek limit and the ones
\* around what the peek buffer plus one drain can swallow.
Lens == (0..MaxSmall) \cup {PEEK_BYTES - 1, PEEK_BYTES, PEEK_BYTES + 1,
                            PEEK_BYTES + FLUSH_LEN - 1,
                            PEEK_BYTES + FLUSH_LEN,
                            PEEK_BYTES + FLUSH_LEN + 1}

\* A body of length L whose neighbouring bytes all differ.
BodyOf(L) == [i \in 1..L |-> (i * 7) % 251]

\* The bytes of the next message on the same connection.
ExtraOf(L) == [i \in 1..L |-> 200 + i]

HexDigit(d) == IF d < 10 THEN 48 + d ELSE 87 + d

RECURSIVE Hex(_)
Hex(n) == IF n < 16 THEN <<HexDigit(n)>>
          ELSE Hex(n \div 16) \o <<HexDigit(n % 16)>>

\* HTTP/1.1 chunked framing of b in chunks of cs payload bytes.
RECURSIVE ChunkEncode(_, _)
ChunkEncode(b, cs) ==
    IF Len(b) = 0 THEN <<48>> \o CRLF \o CRLF
    ELSE LET k == Min(cs, Len(b))
         IN Hex(k) \o CRLF \o SubSeq(b, 1, k) \o CRLF
            \o ChunkEncode(SubSeq(b, k + 1, Len(b)), cs)

\* The wire bytes that frame body b under encoding kind.
Frame(kind, b) ==
    CASE kind = "Sized"   -> b
      [] kind = "Chunked" -> ChunkEncode(b, ChunkLen)
      [] kind = "Eof"     -> b
      [] kind = "Empty"   -> <<>>

\* Ways a client can get the chunked framing wrong: the size line of the
\* last chunk does not parse, the line that ends the trailer is broken.
Bads(kind) == IF kind = "Chunked" THEN {"none", "size", "trailer"} ELSE {"none"}

\* The frame fr with the damage `bad`: a byte that is no hexadecimal digit in
\* place of the "0" of the last chunk, or in place of the final LF.
Malform(fr, bad) ==
    CASE bad = "none"    -> fr
      [] bad = "size"    -> [fr EXCEPT ![Len(fr) - 4] = 122]
      [] bad = "trailer" -> [fr EXCEPT ![Len(fr)] = 122]

\* What the transport hands over: the network stream's concrete type, whether
\* its read timeout can be set, and the certificate chain the peer of the
\* connection presented (<<>> is None, <<chain>> is Some(chain)); only an
\* encrypted stream reports it.
Transports ==
    { [net |-> "http",  timeout_ok |-> TRUE,  certs |-> <<>>],
      [net |-> "https", timeout_ok |-> TRUE,  certs |-> <<>>],
      [net |-> "https", timeout_ok |-> TRUE,  certs |-> << <<"leaf", "ca">> >>],
      [net |-> "http",  timeout_ok |-> TRUE,  certs |-> << <<"leaf", "ca">> >>],
      [net |-> "http",  timeout_ok |-> FALSE, certs |-> <<>>],
      [net |-> "other", timeout_ok |-> TRUE,  certs |-> <<>>] }

VARIABLES
    ctor,        \* "hyp" (from_hyp over a transport) or "local" (Data::local)
    body,        \* the bytes of the request body as the client sent them
    frame_len,   \* number of wire bytes that frame the body
    hyper_buf,   \* hyper's buffer: header bytes, then already buffered body
    hyper_pos,   \* `pos` reported by take_buf
    net_data,    \* the bytes the network stream still delivers, in order
    fail_at,     \* offset in net_data at which reads fail (-1: never)
    transport,   \* element of Transports
    encoding,    \* the HttpReader hyper handed over: [kind, n]
    conn,        \* cursor position, network offset, read count, closed flag
    phase,       \* "start", then "failed", "panicked" or "alive", then
                 \* "abandoned" (dropped unopened) or "open", then "done"
    buffer,      \* Data.buffer
    is_complete, \* Data.is_complete
    stream,      \* Data.stream
    peer_certs,  \* Data.peer_certs
    prefetch,    \* outcome of read_max in Data::new: "none", "ok", "err"
    ds_buf,      \* DataStream: the buffer in front of the stream
    ds_pos,      \* DataStream: cursor position in ds_buf
    ds_stream,   \* DataStream: the body reader behind the buffer
    ds_end,      \* a read of the DataStream returned 0 bytes
    ds_err,      \* a read of the DataStream failed
    out,         \* the bytes delivered to the application or its writer
    result,      \* result of stream_to / stream_to_file
    data_guard,  \* what the drain guard of the entity was applied to
    ds_guard,    \* what the drain guard of the opened stream was applied to
    sink,        \* the writer or file the body was streamed to: [op, cap,
                 \* created]
    seen,        \* what peek, peek_complete and get_peer_certificates last
                 \* returned to the handler of the live entity (<<>>: not
                 \* called; the borrow of peek() ends when the entity does)
    local_request, \* the LocalRequest of a test: [state, request, data] and
                 \* the body it was last given
    requests,    \* the Requests behind an Rc, by identity: content, number
                 \* of Rc handles, freed or not
    responses,   \* the LocalResponses returned so far: [request, live]
    dispatched,  \* <<>> or what the last dispatch handed to Rocket: [op,
                 \* request, content, data]
    builder,     \* the ConfigBuilder: <<>> or <<its fields>>
    finalized,   \* <<>> or the outcome of finalize / unwrap / expect
    history      \* the setter calls made on the builder

vars == <<ctor, body, frame_len, hyper_buf, hyper_pos, net_data, fail_at,
          transport, encoding, conn, phase, buffer, is_complete, stream,
          peer_certs, prefetch, ds_buf, ds_pos, ds_stream, ds_end, ds_err,
          out, result, data_guard, ds_guard, sink, seen, local_request,
          requests, responses, dispatched, builder, finalized, history>>

\* The variables of the local test client and of the configuration builder,
\* which the operations on a body leave alone.
test_vars == <<local_request, requests, responses, dispatched>>

config_vars == <<builder, finalized, history>>

others == <<test_vars, config_vars>>

inputs == <<ctor, body, frame_len, hyper_buf, hyper_pos, net_data, fail_at,
            transport, encoding>>

\* ------------------------------------------------------------------------
\* The inner byte source: Chain<Cursor<Vec<u8>>, NetStream>
\* ------------------------------------------------------------------------
\* Results of reads: of the inner source [c, data, err], of a reader
\* [rd, c, data, err].  c is the state of the connection.
Got(c, data) == [c |-> c, data |-> data, err |-> FALSE]

IoErr(c) == [c |-> c, data |-> <<>>, err |-> TRUE]

Ok(rd, c, data) == [rd |-> rd, c |-> c, data |-> data, err |-> FALSE]

Fail(rd, c) == [rd |-> rd, c |-> c, data |-> <<>>, err |-> TRUE]

\* One read of the network stream into a buffer of k bytes: at most SegLen
\* bytes, none past the offset at which the stream fails, 0 at its end.
NetRead(c, k) ==
    IF c.npos = fail_at THEN IoErr([c EXCEPT !.reads = @ + 1])
    ELSE With(Min(Min(k, SegLen),
                  IF fail_at > c.npos THEN fail_at - c.npos
                  ELSE Len(net_data) - c.npos),
              LAMBDA n : Got([c EXCEPT !.npos = @ + n, !.reads = @ + 1],
                             SubSeq(net_data, c.npos + 1, c.npos + n)))

\* One read of the chain: the cursor over hyper's buffer first, the network
\* stream once the cursor is at its end.  src = "empty" is the chain of an
\* empty cursor and NetStream::Empty.
ChainRead(src, c, k) ==
    IF src = "empty" THEN Got(c, <<>>)
    ELSE IF c.pos < Len(hyper_buf)
    THEN With(Min(k, Len(hyper_buf) - c.pos),
              LAMBDA n : Got([c EXCEPT !.pos = @ + n],
                             SubSeq(hyper_buf, c.pos + 1, c.pos + n)))
    ELSE NetRead(c, k)

\* ------------------------------------------------------------------------
\* The transfer-encoding reader: HttpReader<Chain<..>>
\* ------------------------------------------------------------------------
\* A reader is [kind, n, src]: n is the bytes left of a Sized body, or of the
\* current chunk of a Chunked one (-1: the next chunk-size line is unread,
\* 0: the terminating chunk was seen); src is "conn" or "empty".
IsHexByte(b) ==
    (b >= 48 /\ b <= 57) \/ (b >= 97 /\ b <= 102) \/ (b >= 65 /\ b <= 70)

HexVal(b) == IF b <= 57 THEN b - 48 ELSE IF b >= 97 THEN b - 87 ELSE b - 55

\* Reads the bytes of `want` one at a time; fails on any other byte, on the
\* end of input and on an I/O error.
RECURSIVE Eat(_, _, _)
Eat(src, c, want) ==
    IF want = <<>> THEN [c |-> c, err |-> FALSE]
    ELSE With(ChainRead(src, c, 1),
              LAMBDA r : IF r.err \/ r.data # <<Head(want)>>
                         THEN [c |-> r.c, err |-> TRUE]
                         ELSE Eat(src, r.c, Tail(want)))

\* Reads a chunk-size line: hexadecimal digits, then CR LF.
RECURSIVE ReadChunkSize(_, _, _, _)
ReadChunkSize(src, c, acc, digits) ==
    With(ChainRead(src, c, 1),
         LAMBDA r :
            IF r.err \/ r.data = <<>> THEN [c |-> r.c, size |-> 0, err |-> TRUE]
            ELSE IF IsHexByte(r.data[1])
            THEN ReadChunkSize(src, r.c, acc * 16 + HexVal(r.data[1]),
                               digits + 1)
            ELSE IF r.data[1] = CRLF[1] /\ digits > 0
            THEN With(Eat(src, r.c, Tail(CRLF)),
                      LAMBDA e : [c |-> e.c, size |-> acc, err |-> e.err])
            ELSE [c |-> r.c, size |-> 0, err |-> TRUE])

\* SizedReader: min(requested, n) bytes of the inner source, n decremented.
SizedRead(rd, c, k) ==
    IF rd.n = 0 THEN Ok(rd, c, <<>>)
    ELSE With(ChainRead(rd.src, c, Min(rd.n, k)),
              LAMBDA r : [rd |-> [rd EXCEPT !.n = @ - Len(r.data)], c |-> r.c,
                          data |-> r.data, err |-> r.err])

\* ChunkedReader, once the size sz of the current chunk is known: the end
\* at size 0, else payload of the chunk and the CR LF after its last byte.
ChunkedSized(rd, sz, k) ==
    IF sz.err THEN Fail(rd, sz.c)
    ELSE IF sz.size = 0
    THEN With(IF rd.n < 0 THEN Eat(rd.src, sz.c, CRLF)
              ELSE [c |-> sz.c, err |-> FALSE],
              LAMBDA e : IF e.err THEN Fail(rd, e.c)
                         ELSE Ok([rd EXCEPT !.n = 0], e.c, <<>>))
    ELSE With(ChainRead(rd.src, sz.c, Min(sz.size, k)),
              LAMBDA r :
                IF r.err THEN Fail(rd, r.c)
                ELSE IF r.data = <<>> THEN Fail([rd EXCEPT !.n = 0], r.c)
                ELSE IF sz.size > Len(r.data)
                THEN Ok([rd EXCEPT !.n = sz.size - Len(r.data)], r.c, r.data)
                ELSE With(Eat(rd.src, r.c, CRLF),
                          LAMBDA e : IF e.err THEN Fail(rd, e.c)
                                     ELSE Ok([rd EXCEPT !.n = -1], e.c, r.data)))

\* ChunkedReader: reads the size line when no chunk is open.
ChunkedRead(rd, c, k) ==
    With(IF rd.n >= 0 THEN [c |-> c, size |-> rd.n, err |-> FALSE]
         ELSE ReadChunkSize(rd.src, c, 0, 0),
         LAMBDA sz : ChunkedSized(rd, sz, k))

\* EofReader: the read of the inner source.
EofRead(rd, c, k) ==
    With(ChainRead(rd.src, c, k),
         LAMBDA r : [rd |-> rd, c |-> r.c, data |-> r.data, err |-> r.err])

\* EmptyReader: 0 bytes, the inner source untouched.
EmptyRead(rd, c, k) == Ok(rd, c, <<>>)

\* One read of the transfer-encoding reader into a buffer of k bytes.
HttpRead(rd, c, k) ==
    CASE rd.kind = "Sized"   -> SizedRead(rd, c, k)
      [] rd.kind = "Chunked" -> ChunkedRead(rd, c, k)
      [] rd.kind = "Eof"     -> EofRead(rd, c, k)
      [] rd.kind = "Empty"   -> EmptyRead(rd, c, k)

\* ReadExt::read_max: reads until k bytes were read or a read returns 0; an
\* error of a read is returned in place of the count.
RECURSIVE ReadMaxLoop(_, _, _, _)
ReadMaxLoop(rd, c, k, acc) ==
    IF k = 0 THEN Ok(rd, c, acc)
    ELSE With(HttpRead(rd, c, k),
              LAMBDA r :
                IF r.err THEN [rd |-> r.rd, c |-> r.c, data |-> acc, err |-> TRUE]
                ELSE IF r.data = <<>> THEN Ok(r.rd, r.c, acc)
                ELSE With(acc \o r.data,
                          LAMBDA got : ReadMaxLoop(r.rd, r.c, k - Len(r.data), got)))

read_max(rd, c, k) == ReadMaxLoop(rd, c, k, <<>>)

\* The reader open() and Data::local leave in the entity:
\* SizedReader(Cursor::new(vec![]).chain(NetStream::Empty), 0).
EmptyHttpStream == [kind |-> "Sized", n |-> 0, src |-> "empty"]

\* ------------------------------------------------------------------------
\* The drain guard
\* ------------------------------------------------------------------------
\* The reader is known to have nothing left of its body.
Exhausted(rd) ==
    \/ rd.src = "empty"
    \/ rd.kind = "Empty"
    \/ (rd.kind \in {"Sized", "Chunked"} /\ rd.n = 0)

\* The record of one run of the guard: the reader it was applied to and the
\* one it left, the connection it left, the reads of the network stream it
\* made, the bytes it discarded, whether a read failed.
Guarded(saw, rd, c0, c, n, err) ==
    [saw |-> saw, rd |-> rd, c |-> c, reads |-> c.reads - c0.reads, n |-> n,
     err |-> err]

Close(c) == [c EXCEPT !.closed = TRUE]

\* kill_stream: nothing to do for an exhausted reader; a body of unknown
\* length closes the connection; otherwise up to FLUSH_LEN bytes are read
\* and discarded, and the connection is closed when a read failed or the
\* bound was reached.
kill_stream(rd, c) ==
    IF Exhausted(rd) THEN Guarded(rd, rd, c, c, 0, FALSE)
    ELSE IF rd.kind = "Eof" THEN Guarded(rd, rd, c, Close(c), 0, FALSE)
    ELSE With(read_max(rd, c, FLUSH_LEN),
              LAMBDA r :
                Guarded(rd, r.rd, c,
                        IF r.err \/ Len(r.data) = FLUSH_LEN THEN Close(r.c)
                        ELSE r.c,
                        Len(r.data), r.err))

\* A drop that runs no guard; a drop whose guard is handed an empty reader.
drop_data_unguarded(rd, c) == <<>>

drop_data_inert(rd, c) == <<kill_stream(EmptyHttpStream, c)>>

\* impl Drop for Data: the guard's record, <<>> when no guard ran.
drop_data(rd, c) == <<kill_stream(rd, c)>>

\* impl Drop for DataStream
drop_data_stream(rd, c) == <<kill_stream(rd, c)>>

\* The reader and the connection a drop leaves behind.
GuardRd(g, rd) == IF g = <<>> THEN rd ELSE g[1].rd

GuardConn(g, c) == IF g = <<>> THEN c ELSE g[1].c

\* ------------------------------------------------------------------------
\* Data
\* ------------------------------------------------------------------------
\* A peek buffer that keeps what was read before the error.
new_peek_buf_keeps(r) == r.data

\* Data::new: the peek buffer after read_max (truncate(n), or truncate(0)).
new_peek_buf(r) == IF r.err THEN <<>> ELSE r.data

\* `eof` that counts a full buffer as complete; `eof` that is true on error.
new_eof_full(r) == IF r.err THEN FALSE ELSE Len(r.data) <= PEEK_BYTES

new_eof_on_err(r) == IF r.err THEN TRUE ELSE Len(r.data) < PEEK_BYTES

\* `eof` that takes a prefetch of no bytes for an unknown state.
new_eof_nonzero(r) ==
    IF r.err THEN FALSE ELSE Len(r.data) > 0 /\ Len(r.data) < PEEK_BYTES

\* Data::new: `eof`, which becomes is_complete.
new_eof(r) == IF r.err THEN FALSE ELSE Len(r.data) < PEEK_BYTES

\* Data::new
New(rd, c) ==
    With(read_max(rd, c, PEEK_BYTES),
         LAMBDA r : [buffer |-> new_peek_buf(r), is_complete |-> new_eof(r),
                     stream |-> r.rd, peer_certs |-> <<>>, c |-> r.c,
                     prefetch |-> IF r.err THEN "err" ELSE "ok"])

\* Data::local that keeps only what peek() can show.
local_peek_only(data) ==
    [buffer |-> SubSeq(data, 1, Min(Len(data), PEEK_BYTES)),
     is_complete |-> TRUE, stream |-> EmptyHttpStream, peer_certs |-> <<>>]

\* Data::local
local(data) ==
    [buffer |-> data, is_complete |-> TRUE, stream |-> EmptyHttpStream,
     peer_certs |-> <<>>]

\* Data::set_peer_certificates
set_peer_certificates(d, certs) == [d EXCEPT !.peer_certs = <<certs>>]

\* Data::get_peer_certificates
get_peer_certificates(certs) == certs

\* Data::peek
peek(buf) == IF Len(buf) > PEEK_BYTES THEN SubSeq(buf, 1, PEEK_BYTES) ELSE buf

\* A peek() that cuts the buffer down to what it returns.
peek_truncates(buf) == peek(buf)

\* Data::peek takes &self: the buffer it leaves in the entity.
peek_self(buf) == buf

\* Data::peek_complete
peek_complete(complete) == complete

\* open() that returns the stream without the buffered prefix, that leaves
\* a copy of the buffer in the entity, that leaves the stream in the entity.
open_without_prefix(buf, st) ==
    [buffer |-> <<>>, stream |-> EmptyHttpStream, ds_buf |-> <<>>,
     ds_stream |-> st]

open_keeps_buffer(buf, st) ==
    [buffer |-> buf, stream |-> EmptyHttpStream, ds_buf |-> buf,
     ds_stream |-> st]

open_keeps_stream(buf, st) ==
    [buffer |-> <<>>, stream |-> st, ds_buf |-> buf, ds_stream |-> st]

\* Data::open: what it leaves in the entity and what it returns.
open(buf, st) ==
    [buffer |-> <<>>, stream |-> EmptyHttpStream, ds_buf |-> buf,
     ds_stream |-> st]

\* The downcast of the build without TLS, which knows HttpStream only.
concrete_stream_http_only(net) == IF net = "http" THEN <<net>> ELSE <<>>

\* from_hyp: concrete_stream, the downcast of hyper's network stream.
concrete_stream(net) == IF net \in {"https", "http"} THEN <<net>> ELSE <<>>

\* from_hyp: the certificate chain the net stream reports.
\* A cursor left at the start of the parser's buffer.
inner_data_from_start(c) == [c EXCEPT !.pos = 0]

\* cursor.set_position(pos); cursor.chain(net_stream): the reader under the
\* body reader starts at pos in the parser's buffer.
inner_data(c) == [c EXCEPT !.pos = hyper_pos]

\* from_hyp that does not ask the stream for its certificates.
cert_info_none(tr) == <<>>

\* NetStream::get_peer_certificates: the chain of the peer, which only an
\* encrypted stream has to report.
net_stream_get_peer_certificates(tr) ==
    IF tr.net = "https" THEN tr.certs ELSE <<>>

\* let cert_info = net_stream.get_peer_certificates(): from_hyp asks the
\* stream, whichever variant it is, and takes what it reports.
cert_info(tr) == net_stream_get_peer_certificates(tr)

\* Rebuilds of the reader that get the counter or the variant wrong: a Sized
\* reader one byte too long, a Chunked reader that is already at its end, a
\* reader that runs to the end of the stream whatever the framing was.
http_stream_sized_off(enc) ==
    [kind |-> enc.kind, n |-> IF enc.kind = "Sized" THEN enc.n + 1 ELSE enc.n,
     src |-> "conn"]

http_stream_chunk_done(enc) ==
    [kind |-> enc.kind, n |-> IF enc.kind = "Chunked" THEN 0 ELSE enc.n,
     src |-> "conn"]

http_stream_as_eof(enc) == [kind |-> "Eof", n |-> 0, src |-> "conn"]

\* from_hyp: the reader rebuilt over the stolen buffer and the net stream.
http_stream(enc) == [kind |-> enc.kind, n |-> enc.n, src |-> "conn"]

\* A from_hyp that forgets to attach the chain.
from_hyp_data_unattached(d, certs) == d

\* from_hyp: the entity of Data::new with the certificates attached.
from_hyp_data(d, certs) ==
    IF certs # <<>> THEN set_peer_certificates(d, certs[1]) ELSE d

\* from_hyp: how it ends.
from_hyp_outcome(tr) ==
    IF concrete_stream(tr.net) = <<>> THEN "failed"
    ELSE IF ~tr.timeout_ok THEN "panicked"
    ELSE "alive"

\* One read of the DataStream: Cursor::new(buffer).chain(stream).
DsRead(dbuf, dpos, rd, c, k) ==
    IF dpos < Len(dbuf)
    THEN With(Min(k, Len(dbuf) - dpos),
              LAMBDA n : [pos |-> dpos + n, rd |-> rd, c |-> c,
                          data |-> SubSeq(dbuf, dpos + 1, dpos + n),
                          err |-> FALSE])
    ELSE With(HttpRead(rd, c, k),
              LAMBDA r : [pos |-> dpos, rd |-> r.rd, c |-> r.c,
                          data |-> r.data, err |-> r.err])

\* A copy that stops after the first read of the stream.
copy_single_read(dbuf, dpos, rd, c, cap, acc) ==
    With(DsRead(dbuf, dpos, rd, c, CopyBuf),
         LAMBDA r : [rd |-> r.rd, c |-> r.c, pos |-> r.pos,
                     end |-> ~r.err /\ r.data = <<>>, rerr |-> r.err,
                     out |-> IF cap >= 0 /\ Len(r.data) > cap
                             THEN SubSeq(r.data, 1, cap) ELSE r.data,
                     err |-> r.err \/ (cap >= 0 /\ Len(r.data) > cap)])

\* io::copy from the DataStream into a writer that accepts cap bytes
\* (cap < 0: any number) and fails on the next.  pos is the cursor of the
\* DataStream after the last read, end a last read that returned 0 bytes,
\* rerr a read that failed; a read whose bytes the writer refuses has
\* already moved the cursor and the reader.
RECURSIVE Copy(_, _, _, _, _, _)
Copy(dbuf, dpos, rd, c, cap, acc) ==
    With(DsRead(dbuf, dpos, rd, c, CopyBuf),
         LAMBDA r :
            IF r.err
            THEN [rd |-> r.rd, c |-> r.c, pos |-> r.pos, end |-> FALSE,
                  rerr |-> TRUE, out |-> acc, err |-> TRUE]
            ELSE IF r.data = <<>>
            THEN [rd |-> r.rd, c |-> r.c, pos |-> r.pos, end |-> TRUE,
                  rerr |-> FALSE, out |-> acc, err |-> FALSE]
            ELSE IF cap >= 0 /\ Len(acc) + Len(r.data) > cap
            THEN [rd |-> r.rd, c |-> r.c, pos |-> r.pos, end |-> FALSE,
                  rerr |-> FALSE,
                  out |-> acc \o SubSeq(r.data, 1, cap - Len(acc)),
                  err |-> TRUE]
            ELSE With(acc \o r.data,
                      LAMBDA got : Copy(dbuf, r.pos, r.rd, r.c, cap, got)))

\* A stream_to_file that does not report that the file was not created.
copy_into_swallow(created, dbuf, rd, c, cap) ==
    IF created THEN Copy(dbuf, 0, rd, c, cap, <<>>)
    ELSE [rd |-> rd, c |-> c, pos |-> 0, end |-> FALSE, rerr |-> FALSE,
          out |-> <<>>, err |-> FALSE]

\* io::copy(&mut self.open(), writer) of stream_to and stream_to_file, whose
\* writer is File::create(path)?: created = FALSE is a file that could not
\* be created, which ends the call after open() and before any copy.
copy_into(created, dbuf, rd, c, cap) ==
    IF created THEN Copy(dbuf, 0, rd, c, cap, <<>>)
    ELSE [rd |-> rd, c |-> c, pos |-> 0, end |-> FALSE, rerr |-> FALSE,
          out |-> <<>>, err |-> TRUE]

\* ------------------------------------------------------------------------
\* Initial states: a transport positioned at the body, or local data
\* ------------------------------------------------------------------------
NoConn == [pos |-> 0, npos |-> 0, reads |-> 0, closed |-> FALSE]

NotSeen == [peek |-> <<>>, peek_complete |-> <<>>, certs |-> <<>>]

InitEntity ==
    /\ conn = NoConn
    /\ phase = "start"
    /\ buffer = <<>>
    /\ is_complete = FALSE
    /\ stream = EmptyHttpStream
    /\ peer_certs = <<>>
    /\ prefetch = "none"
    /\ ds_buf = <<>>
    /\ ds_pos = 0
    /\ ds_stream = EmptyHttpStream
    /\ ds_end = FALSE
    /\ ds_err = FALSE
    /\ out = <<>>
    /\ result = [kind |-> "none", n |-> 0]
    /\ data_guard = <<>>
    /\ ds_guard = <<>>
    /\ sink = [op |-> "none", cap |-> -1, created |-> FALSE]
    /\ seen = NotSeen

\* The offsets of a network stream of n bytes at which its reads may fail.
FailOffsets(n) == {-1, 0, n \div 2, n}

\* hyper holds hp header bytes and the first bytes of the wire, at most pre
\* (a connection that carried earlier messages has both), and the network
\* stream delivers the rest.  Damaged framing and a failing network stream
\* are two faults, taken one at a time.
InitHyp ==
    \E kind \in Kinds :
    \E L \in (IF kind = "Empty" THEN {0} ELSE Lens) :
    \E x \in (IF kind = "Eof" THEN {0} ELSE {0, MaxExtra}) :
    \E hp \in {0, HdrLen} :
    \E pre \in {IF hp = 0 THEN 0 ELSE MaxPre} :
    \E tr \in Transports :
    \E bad \in Bads(kind) :
    \E b \in {BodyOf(L)} :
    \E fr \in {Malform(Frame(kind, b), bad)} :
    \E wire \in {fr \o ExtraOf(x)} :
    \E p \in {Min(pre, Len(wire))} :
        /\ ctor = "hyp"
        /\ body = b
        /\ frame_len = Len(fr)
        /\ hyper_buf = [i \in 1..hp |-> 72] \o SubSeq(wire, 1, p)
        /\ hyper_pos = hp
        /\ net_data = SubSeq(wire, p + 1, Len(wire))
        /\ fail_at \in (IF bad = "none" THEN FailOffsets(Len(wire) - p)
                        ELSE {-1})
        /\ transport = tr
        /\ encoding = [kind |-> kind,
                       n |-> CASE kind = "Sized" -> L
                               [] kind = "Chunked" -> -1
                               [] OTHER -> 0]

InitLocal ==
    \E L \in Lens :
        /\ ctor = "local"
        /\ body = BodyOf(L)
        /\ frame_len = 0
        /\ hyper_buf = <<>>
        /\ hyper_pos = 0
        /\ net_data = <<>>
        /\ fail_at = -1
        /\ transport = [net |-> "none", timeout_ok |-> TRUE, certs |-> <<>>]
        /\ encoding = [kind |-> "Empty", n |-> 0]

\* No LocalRequest was made yet.
NoLocalRequest ==
    [state |-> "none", request |-> 0, data |-> <<>>, given |-> <<>>,
     taken |-> 0, passed |-> {}, calls |-> 0]

NoTest ==
    /\ local_request = NoLocalRequest
    /\ requests = <<>>
    /\ responses = <<>>
    /\ dispatched = <<>>

\* No ConfigBuilder was made yet.
NoConfig ==
    /\ builder = <<>>
    /\ finalized = <<>>
    /\ history = <<>>

Init == InitEntity /\ (InitHyp \/ InitLocal) /\ NoTest /\ NoConfig

\* ------------------------------------------------------------------------
\* Actions
\* ------------------------------------------------------------------------
\* The entity d becomes the handler's body.
Install(d) ==
    /\ buffer' = d.buffer
    /\ is_complete' = d.is_complete
    /\ stream' = d.stream
    /\ peer_certs' = d.peer_certs

\* Data::from_hyp
FromHyp ==
    /\ phase = "start"
    /\ ctor = "hyp"
    /\ phase' = from_hyp_outcome(transport)
    /\ IF from_hyp_outcome(transport) = "alive"
       THEN \E d \in {New(http_stream(encoding),
                          inner_data(conn))} :
                /\ Install(from_hyp_data(d, cert_info(transport)))
                /\ prefetch' = d.prefetch
                /\ conn' = d.c
       ELSE UNCHANGED <<buffer, is_complete, stream, peer_certs, prefetch, conn>>
    /\ UNCHANGED <<inputs, others, ds_buf, ds_pos, ds_stream, ds_end, ds_err, out,
                   result, data_guard, ds_guard, sink, seen>>

\* LocalRequest dispatch: Data::local(data)
Local ==
    /\ phase = "start"
    /\ ctor = "local"
    /\ phase' = "alive"
    /\ Install(local(body))
    /\ UNCHANGED <<inputs, others, conn, prefetch, ds_buf, ds_pos, ds_stream, ds_end,
                   ds_err, out, result, data_guard, ds_guard, sink, seen>>

\* open() returned o: the stream is the caller's, and the consumed entity
\* was dropped with what open() left in it (g is that drop).
Handoff(o, g) ==
    /\ buffer' = o.buffer
    /\ stream' = GuardRd(g, o.stream)
    /\ data_guard' = g
    /\ ds_buf' = o.ds_buf

\* data.open()
Open ==
    /\ phase = "alive"
    /\ phase' = "open"
    /\ \E o \in {open(buffer, stream)} :
       \E g \in {drop_data(o.stream, conn)} :
            /\ Handoff(o, g)
            /\ ds_pos' = 0
            /\ ds_stream' = o.ds_stream
            /\ conn' = GuardConn(g, conn)
    /\ seen' = NotSeen
    /\ UNCHANGED <<inputs, others, is_complete, peer_certs, prefetch, ds_end, ds_err,
                   out, result, ds_guard, sink>>

\* One read of the opened stream by the application.
ReadStream ==
    /\ phase = "open"
    /\ ~ds_end
    /\ ~ds_err
    /\ \E r \in {DsRead(ds_buf, ds_pos, ds_stream, conn, AppRead)} :
            /\ ds_pos' = r.pos
            /\ ds_stream' = r.rd
            /\ conn' = r.c
            /\ out' = out \o r.data
            /\ ds_err' = r.err
            /\ ds_end' = (~r.err /\ r.data = <<>>)
    /\ UNCHANGED <<inputs, others, phase, buffer, is_complete, stream, peer_certs,
                   prefetch, ds_buf, result, data_guard, ds_guard, sink, seen>>

\* The application lets go of the opened stream.
DropStream ==
    /\ phase = "open"
    /\ phase' = "done"
    /\ \E g \in {drop_data_stream(ds_stream, conn)} :
            /\ ds_stream' = GuardRd(g, ds_stream)
            /\ conn' = GuardConn(g, conn)
            /\ ds_guard' = g
    /\ UNCHANGED <<inputs, others, buffer, is_complete, stream, peer_certs, prefetch,
                   ds_buf, ds_pos, ds_end, ds_err, out, result, data_guard,
                   sink, seen>>

\* The entity is dropped without having been opened.
DropData ==
    /\ phase = "alive"
    /\ phase' = "abandoned"
    /\ \E g \in {drop_data(stream, conn)} :
            /\ stream' = GuardRd(g, stream)
            /\ conn' = GuardConn(g, conn)
            /\ data_guard' = g
    /\ seen' = NotSeen
    /\ UNCHANGED <<inputs, others, buffer, is_complete, peer_certs, prefetch, ds_buf,
                   ds_pos, ds_stream, ds_end, ds_err, out, result, ds_guard,
                   sink>>

\* io::copy(&mut self.open(), writer): open() and the drop of the entity,
\* the copy into a writer that accepts cap bytes, the drop of the stream.
\* created = FALSE is stream_to_file whose File::create failed, after open()
\* and before any copy.  ds_pos, ds_end and ds_err are those of the stream
\* the call opened, as the copy left them when the stream was dropped.
StreamInto(cap, created) ==
    /\ phase' = "done"
    /\ \E o \in {open(buffer, stream)} :
       \E g \in {drop_data(o.stream, conn)} :
       \E cp \in {copy_into(created, o.ds_buf, o.ds_stream,
                            GuardConn(g, conn), cap)} :
       \E h \in {drop_data_stream(cp.rd, cp.c)} :
            /\ Handoff(o, g)
            /\ ds_stream' = GuardRd(h, cp.rd)
            /\ ds_guard' = h
            /\ conn' = GuardConn(h, cp.c)
            /\ ds_pos' = cp.pos
            /\ ds_end' = cp.end
            /\ ds_err' = cp.rerr
            /\ out' = cp.out
            /\ result' = IF cp.err THEN [kind |-> "err", n |-> 0]
                         ELSE [kind |-> "ok", n |-> Len(cp.out)]
    /\ seen' = NotSeen
    /\ UNCHANGED <<inputs, others, is_complete, peer_certs, prefetch>>

\* data.stream_to(writer)
StreamTo ==
    /\ phase = "alive"
    /\ \E cap \in {-1, WriterCap} :
            /\ StreamInto(cap, TRUE)
            /\ sink' = [op |-> "writer", cap |-> cap, created |-> TRUE]

\* data.stream_to_file(path)
StreamToFile ==
    /\ phase = "alive"
    /\ \E created \in BOOLEAN :
            /\ StreamInto(-1, created)
            /\ sink' = [op |-> "file", cap |-> -1, created |-> created]

\* data.peek()
Peek ==
    /\ phase = "alive"
    /\ seen' = [seen EXCEPT !.peek = <<peek(buffer)>>]
    /\ buffer' = peek_self(buffer)
    /\ UNCHANGED <<inputs, others, conn, phase, is_complete, stream, peer_certs,
                   prefetch, ds_buf, ds_pos, ds_stream, ds_end, ds_err, out,
                   result, data_guard, ds_guard, sink>>

\* data.peek_complete()
PeekComplete ==
    /\ phase = "alive"
    /\ seen' = [seen EXCEPT !.peek_complete = <<peek_complete(is_complete)>>]
    /\ UNCHANGED <<inputs, others, conn, phase, buffer, is_complete, stream, peer_certs,
                   prefetch, ds_buf, ds_pos, ds_stream, ds_end, ds_err, out,
                   result, data_guard, ds_guard, sink>>

\* data.get_peer_certificates()
GetPeerCertificates ==
    /\ phase = "alive"
    /\ seen' = [seen EXCEPT !.certs = <<get_peer_certificates(peer_certs)>>]
    /\ UNCHANGED <<inputs, others, conn, phase, buffer, is_complete, stream, peer_certs,
                   prefetch, ds_buf, ds_pos, ds_stream, ds_end, ds_err, out,
                   result, data_guard, ds_guard, sink>>

Next ==
    \/ FromHyp
    \/ Local
    \/ Open
    \/ ReadStream
    \/ DropStream
    \/ DropData
    \/ StreamTo
    \/ StreamToFile
    \/ Peek
    \/ PeekComplete
    \/ GetPeerCertificates

Spec == Init /\ [][Next]_vars

\* The handler runs on one thread and every step it can take is taken.
FairSpec == Spec /\ WF_vars(Next)

\* ------------------------------------------------------------------------
\* Properties
\* ------------------------------------------------------------------------
IsPrefix(a, b) == Len(a) <= Len(b) /\ a = SubSeq(b, 1, Len(a))

\* The wire bytes of this message consumed so far.
Consumed == (conn.pos - hyper_pos) + conn.npos

\* What reading the entity's stream to its end would still yield.
Remainder ==
    read_max(stream, conn, Len(hyper_buf) + Len(net_data) + 1).data

\* The entity was opened (by open, stream_to or stream_to_file).
WasOpened == phase \in {"open", "done"}

\* The stream of open() was read to its end without error.
ReadToEnd == (phase \in {"open", "done"} /\ ds_end) \/ result.kind = "ok"

\* C1: a body that arrived without I/O error through a Sized, Chunked or
\* RunToEof reader and was read to the end of the opened stream was delivered
\* exactly: the prefetched bytes, then the rest, nothing lost or repeated.
C1_RoundTrip ==
    (/\ ctor = "hyp"
     /\ encoding.kind \in {"Sized", "Chunked", "Eof"}
     /\ prefetch = "ok"
     /\ ReadToEnd) => out = body

C1_Witness ==
    /\ ctor = "hyp"
    /\ encoding.kind = "Chunked"
    /\ phase = "open"
    /\ ds_end
    /\ Len(body) = PEEK_BYTES + 1
    /\ out = body

\* C2 as stated: every body of at most 512 bytes built by Data::new is peeked
\* whole and reported complete.
C2_Original ==
    (/\ ctor = "hyp"
     /\ phase = "alive"
     /\ prefetch = "ok"
     /\ Len(body) <= PEEK_BYTES)
        => (peek(buffer) = body /\ peek_complete(is_complete))

\* C2: every body of at most 512 bytes built by Data::new without read error
\* is peeked whole; it is reported complete when it has fewer than 512 bytes
\* and not complete when it has exactly 512.
C2_PeekSmall ==
    (/\ ctor = "hyp"
     /\ phase = "alive"
     /\ prefetch = "ok"
     /\ Len(body) <= PEEK_BYTES)
        => /\ peek(buffer) = body
           /\ peek_complete(is_complete) <=> (Len(body) < PEEK_BYTES)

C2_Witness ==
    /\ ctor = "hyp"
    /\ phase = "alive"
    /\ Len(body) = PEEK_BYTES - 1
    /\ peek(buffer) = body
    /\ peek_complete(is_complete)

\* C3: every body of more than 512 bytes shows its first 512 bytes in peek()
\* and is not reported complete.
C3_PeekLarge ==
    (/\ phase = "alive"
     /\ prefetch # "err"
     /\ Len(body) > PEEK_BYTES)
        => /\ peek(buffer) = SubSeq(body, 1, PEEK_BYTES)
           /\ ~peek_complete(is_complete)

\* C4: after Data::new, peek_complete() is true exactly when the prefetch
\* succeeded with fewer than 512 bytes; a full peek buffer is never complete.
C4_CompleteIff ==
    (ctor = "hyp" /\ phase = "alive")
        => /\ peek_complete(is_complete)
                <=> (prefetch = "ok" /\ Len(buffer) < PEEK_BYTES)
           /\ Len(buffer) = PEEK_BYTES => ~peek_complete(is_complete)

C4_Witness ==
    /\ ctor = "hyp"
    /\ phase = "alive"
    /\ prefetch = "ok"
    /\ Len(body) = PEEK_BYTES
    /\ Len(buffer) = PEEK_BYTES
    /\ ~peek_complete(is_complete)

\* C5: whenever peek_complete() is true, peek() is the entire body: open()
\* would yield the bytes of peek() and nothing more.
C5_CompleteIsWhole ==
    (phase = "alive" /\ peek_complete(is_complete))
        => buffer \o Remainder = peek(buffer)

\* C6: after open() the entity holds an empty buffer and the inert empty
\* reader, reading it yields nothing, and what was delivered is a prefix of
\* the body, so no byte is delivered twice.
C6_OneShot ==
    WasOpened
        => /\ buffer = <<>>
           /\ stream = EmptyHttpStream
           /\ peek(buffer) = <<>>
           /\ Remainder = <<>>
           /\ prefetch # "err" => IsPrefix(out, body)

C6_Witness ==
    /\ phase = "open"
    /\ ds_end
    /\ Len(out) > PEEK_BYTES
    /\ buffer = <<>>
    /\ stream = EmptyHttpStream

\* C7: every entity that was constructed eventually has the drain guard run
\* on its stream, on every path the handler takes.
C7_GuardRuns == (phase = "alive") ~> (data_guard # <<>>)

C7_Witness ==
    /\ phase = "done"
    /\ result.kind = "err"
    /\ out = <<>>
    /\ Len(body) > 0
    /\ data_guard # <<>>

\* C8: an entity dropped without open() had the guard run, and its transport
\* is either past the last byte that frames the body or closed; it is closed
\* when the body's length is unknown and when a read of the guard failed.
C8_Abandon ==
    phase = "abandoned"
        => /\ data_guard # <<>>
           /\ conn.closed \/ Consumed >= frame_len
           /\ (ctor = "hyp" /\ encoding.kind = "Eof") => conn.closed
           /\ (data_guard # <<>> /\ data_guard[1].err) => conn.closed

C8_Witness ==
    /\ phase = "abandoned"
    /\ ~conn.closed
    /\ data_guard # <<>>
    /\ data_guard[1].n > 0
    /\ Consumed = frame_len

\* C9: once open() was called the guard of the entity sees only the inert
\* empty reader and reads nothing from the transport, also after the opened
\* stream was read to its end.
C9_NoReadAfterOpen ==
    WasOpened
        => /\ data_guard # <<>>
           /\ data_guard[1].saw = EmptyHttpStream
           /\ data_guard[1].reads = 0
           /\ data_guard[1].n = 0

C9_Witness ==
    /\ phase = "done"
    /\ ds_end
    /\ out = body
    /\ Len(body) > PEEK_BYTES
    /\ data_guard # <<>>
    /\ data_guard[1].reads = 0

\* C10 as stated: construction always returns an entity.
C10_Original == (ctor = "hyp" /\ phase # "start") => phase \notin {"failed", "panicked"}

\* C10: from_hyp returns an error exactly when the network stream is neither
\* an HTTP nor an HTTPS stream and panics exactly when the read timeout of
\* such a stream cannot be set; in every other case it returns an entity,
\* whether or not the reads of the prefetch failed.
C10_Construction ==
    (ctor = "hyp" /\ phase # "start")
        => /\ phase = "failed" <=> transport.net \notin {"http", "https"}
           /\ phase = "panicked"
                <=> (transport.net \in {"http", "https"} /\ ~transport.timeout_ok)
           /\ phase \notin {"failed", "panicked"} => prefetch \in {"ok", "err"}

C10_Witness ==
    /\ ctor = "hyp"
    /\ phase = "alive"
    /\ prefetch = "err"
    /\ buffer = <<>>

\* The reader that reads the body: the entity's, or the opened stream's once
\* open() moved it there.
BodyReader == IF WasOpened THEN ds_stream ELSE stream

\* The bytes behind `pos` in hyper's buffer followed by the network stream's.
Wire == SubSeq(hyper_buf, hyper_pos + 1, Len(hyper_buf)) \o net_data

Built == phase \in {"alive", "abandoned", "open", "done"}

\* The wire holds the body in the framing of its encoding, undamaged.
WellFormed == SubSeq(Wire, 1, frame_len) = Frame(encoding.kind, body)

\* C11: a read error during the prefetch is not reported: the entity exists,
\* its peek() is empty and its peek_complete() is false.
C11_PrefetchError ==
    prefetch = "err"
        => /\ Built
           /\ phase = "alive"
                => (peek(buffer) = <<>> /\ ~peek_complete(is_complete))

C11_Witness ==
    /\ phase = "alive"
    /\ prefetch = "err"
    /\ Consumed > 0
    /\ peek(buffer) = <<>>
    /\ ~peek_complete(is_complete)

\* C12: a Sized body of declared length n over a source that holds more
\* delivers the first n bytes and no more: nothing past n is taken from the
\* source, a reader at n = 0 reads 0 bytes, and peek() and the opened stream
\* show the body only.
C12_SizedFraming ==
    (ctor = "hyp" /\ encoding.kind = "Sized" /\ Built)
        => /\ Consumed <= encoding.n
           /\ BodyReader.n = encoding.n - Consumed
           /\ BodyReader.n = 0
                => HttpRead(BodyReader, conn, AppRead)
                     = Ok(BodyReader, conn, <<>>)
           /\ prefetch = "ok" => (IsPrefix(peek(buffer), body)
                                  /\ IsPrefix(out, body))
           /\ (prefetch = "ok" /\ ReadToEnd) => out = SubSeq(Wire, 1, encoding.n)

C12_Witness ==
    /\ ctor = "hyp"
    /\ encoding.kind = "Sized"
    /\ phase = "open"
    /\ ds_end
    /\ Len(Wire) > encoding.n
    /\ encoding.n > PEEK_BYTES
    /\ out = body
    /\ Consumed = encoding.n

\* C13: a well-formed chunked body read to its end is the chunk payloads in
\* order, the terminating chunk and its trailer are consumed and a further
\* read returns 0; a size line that does not parse or a broken trailer makes
\* a read fail, and no read ever reports the end of such a body.
C13_ChunkedFraming ==
    (ctor = "hyp" /\ encoding.kind = "Chunked" /\ Built)
        => /\ prefetch = "ok" => IsPrefix(out, body)
           /\ WellFormed
                => /\ (prefetch = "ok" /\ ReadToEnd) => out = body
                   /\ BodyReader.n = 0
                        => /\ Consumed = frame_len
                           /\ HttpRead(BodyReader, conn, AppRead)
                                = Ok(BodyReader, conn, <<>>)
           /\ ~WellFormed
                => /\ ~ds_end
                   /\ result.kind # "ok"
                   /\ ~peek_complete(is_complete)
                   /\ BodyReader.n # 0
                   /\ phase = "alive"
                        => read_max(stream, conn, Len(Wire) + 1).err

C13_Witness ==
    /\ ctor = "hyp"
    /\ encoding.kind = "Chunked"
    /\ ~WellFormed
    /\ fail_at = -1
    /\ phase = "open"
    /\ ds_err
    /\ Len(body) > PEEK_BYTES
    /\ out = body

\* C14: over the Empty encoding peek() is empty, peek_complete() is true, the
\* opened stream yields 0 bytes at its first read, and neither construction,
\* reads nor the guard touch the inner source.
C14_EmptyBody ==
    (ctor = "hyp" /\ encoding.kind = "Empty" /\ Built)
        => /\ peek(buffer) = <<>>
           /\ peek_complete(is_complete)
           /\ prefetch = "ok"
           /\ phase = "open"
                => DsRead(ds_buf, ds_pos, ds_stream, conn, AppRead).data = <<>>
           /\ out = <<>>
           /\ ~ds_err
           /\ Consumed = 0
           /\ conn.reads = 0
           /\ ~conn.closed

C14_Witness ==
    /\ ctor = "hyp"
    /\ encoding.kind = "Empty"
    /\ phase = "open"
    /\ ds_end
    /\ out = <<>>
    /\ Len(Wire) > 0

\* C15: an entity built by Data::local is complete and has an empty
\* remainder whatever the length of its data: the opened stream yields the
\* data and then the end, and no transport is read or closed.
C15_LocalData ==
    (ctor = "local" /\ Built)
        => /\ peek_complete(is_complete)
           /\ BodyReader = EmptyHttpStream
           /\ conn = NoConn
           /\ ~ds_err
           /\ IsPrefix(out, body)
           /\ phase = "alive" => (buffer = body /\ Remainder = <<>>)
           /\ ReadToEnd => out = body

C15_Witness ==
    /\ ctor = "local"
    /\ phase = "open"
    /\ ds_end
    /\ Len(body) > PEEK_BYTES
    /\ out = body

\* What open() followed by reads up to the end would collect from the live
\* entity: the buffer, then what read_max gets from the stream ([data, err]).
Whole ==
    With(read_max(stream, conn, Len(Wire) + 1),
         LAMBDA r : [data |-> buffer \o r.data, err |-> r.err])

\* C16: stream_to(writer) is open() followed by the copy of the stream: the
\* entity is consumed, the writer gets what the stream yields, in order, as
\* far as it accepts it; without a failure of the stream or of the writer
\* the call returns the count of the whole body, else the error.
C16_StreamTo ==
    [][(phase = "alive" /\ sink'.op = "writer")
        => /\ phase' = "done"
           /\ buffer' = <<>>
           /\ stream' = EmptyHttpStream
           /\ out' = IF sink'.cap < 0 \/ Len(Whole.data) <= sink'.cap
                     THEN Whole.data
                     ELSE SubSeq(Whole.data, 1, sink'.cap)
           /\ result'.kind
                = IF Whole.err \/ (sink'.cap >= 0 /\ Len(Whole.data) > sink'.cap)
                  THEN "err" ELSE "ok"
           /\ result'.kind = "ok"
                => /\ result'.n = Len(out')
                   /\ prefetch = "ok" => (out' = body /\ result'.n = Len(body))
                   /\ ctor = "local" => out' = body]_vars

C16_Witness ==
    /\ sink.op = "writer"
    /\ ctor = "hyp"
    /\ encoding.kind = "Chunked"
    /\ result.kind = "ok"
    /\ Len(body) > PEEK_BYTES
    /\ out = body
    /\ result.n = Len(body)

\* C17: stream_to_file(path) consumes the entity; with the file created it
\* copies the whole body into it and returns the count (or the error of the
\* stream); when the file cannot be created it returns the error and no
\* byte of the body is written.
C17_StreamToFile ==
    [][(phase = "alive" /\ sink'.op = "file")
        => /\ phase' = "done"
           /\ buffer' = <<>>
           /\ stream' = EmptyHttpStream
           /\ data_guard' # <<>>
           /\ sink'.created
                => /\ out' = Whole.data
                   /\ result'.kind = IF Whole.err THEN "err" ELSE "ok"
                   /\ result'.kind = "ok"
                        => /\ result'.n = Len(out')
                           /\ prefetch = "ok"
                                => (out' = body /\ result'.n = Len(body))
                           /\ ctor = "local" => out' = body
           /\ ~sink'.created => (result'.kind = "err" /\ out' = <<>>)]_vars

C17_Witness ==
    /\ sink.op = "file"
    /\ ~sink.created
    /\ Len(body) > PEEK_BYTES
    /\ result.kind = "err"
    /\ out = <<>>
    /\ buffer = <<>>
    /\ stream = EmptyHttpStream

\* C18: peek() and peek_complete() read nothing and change nothing: the
\* entity, its transport and what open() would yield are as before the call,
\* a call returns what the earlier call returned, and the slice of peek() has
\* at most 512 bytes and is a prefix of the body.
C18_PeekPure ==
    [][(\/ seen'.peek # <<>> /\ seen'.peek # seen.peek
        \/ seen'.peek_complete # <<>>
                /\ seen'.peek_complete # seen.peek_complete)
        => /\ UNCHANGED <<phase, buffer, is_complete, stream, peer_certs, conn,
                          out>>
           /\ Whole' = Whole
           /\ seen'.peek # <<>>
                => /\ seen'.peek[1] = peek(buffer)
                   /\ seen.peek # <<>> => seen'.peek = seen.peek
                   /\ Len(seen'.peek[1]) <= PEEK_BYTES
                   /\ IsPrefix(seen'.peek[1], body)
           /\ seen'.peek_complete # <<>>
                => /\ seen'.peek_complete[1] = peek_complete(is_complete)
                   /\ seen.peek_complete # <<>>
                        => seen'.peek_complete = seen.peek_complete]_vars

C18_Witness ==
    /\ phase = "alive"
    /\ ctor = "local"
    /\ seen.peek # <<>>
    /\ seen.peek_complete # <<>>
    /\ Len(seen.peek[1]) = PEEK_BYTES
    /\ Len(buffer) > PEEK_BYTES

\* C19: the reader of the body keeps the variant the transport handed over:
\* from_hyp rebuilds it over the connection with the same counter, and
\* prefetch, open, reads and the guards change its counter only.
C19_VariantKept ==
    (ctor = "hyp" /\ Built)
        => /\ BodyReader.kind = encoding.kind
           /\ BodyReader.src = "conn"
           /\ Consumed = 0 => BodyReader.n = encoding.n
           /\ encoding.kind = "Sized" => BodyReader.n = encoding.n - Consumed
           /\ encoding.kind = "Chunked" => BodyReader.n >= -1
           /\ encoding.kind \in {"Eof", "Empty"} => BodyReader.n = encoding.n

C19_Witness ==
    /\ ctor = "hyp"
    /\ encoding.kind = "Chunked"
    /\ phase = "done"
    /\ ds_guard # <<>>
    /\ Len(body) > PEEK_BYTES
    /\ BodyReader.kind = "Chunked"
    /\ BodyReader.n = 0

\* The chain an entity is to carry: the one the peer presented, when the
\* entity was built by from_hyp over an encrypted transport.
Attached ==
    IF ctor = "hyp" /\ transport.net = "https" THEN transport.certs ELSE <<>>

\* C20: the entity of Data::new and of Data::local has no certificate chain;
\* from_hyp attaches to the entity of Data::new what the stream reported,
\* whatever it is, and nothing when it reported none; the chain of a built
\* entity is the one an encrypted transport reported and is absent over any
\* other transport; no operation changes it afterwards, and
\* get_peer_certificates returns it.
C20_PeerCerts ==
    /\ phase = "start"
            => /\ peer_certs = <<>>
               /\ ctor = "local" => local(body).peer_certs = <<>>
               /\ ctor = "hyp"
                    => \E d \in {New(http_stream(encoding),
                                      [conn EXCEPT !.pos = hyper_pos])} :
                          /\ d.peer_certs = <<>>
                          /\ \A reported \in {<<>>, transport.certs} :
                                from_hyp_data(d, reported) =
                                    [d EXCEPT !.peer_certs = reported]
    /\ Built /\ transport.net # "https" => peer_certs = <<>>
    /\ Built => peer_certs = Attached
    /\ seen.certs # <<>> => seen.certs[1] = Attached

C20_Witness ==
    /\ phase = "alive"
    /\ peer_certs = << <<"leaf", "ca">> >>
    /\ seen.certs = <<peer_certs>>
    /\ seen.peek # <<>>

\* ---------------------------------------------------------------------
\* The local test client: LocalRequest and LocalResponse (local/request.rs)
\* ---------------------------------------------------------------------

\* Bounds of a test: calls of the request's builder methods, and dispatches.
MaxCalls == 2

MaxResponses == 2

\* What a test passes to the methods of a LocalRequest.
HeaderVals == {"h1"}

Addrs == {"a1", "a2"}

CookieVals == {"k1"}

Certs == {"c1", "c2"}

Bodies == {<<>>, <<2, 3>>}

\* The variables of a body entity and of its connection.
data_vars ==
    <<inputs, conn, phase, buffer, is_complete, stream, peer_certs, prefetch,
      ds_buf, ds_pos, ds_stream, ds_end, ds_err, out, result, data_guard,
      ds_guard, sink, seen>>

\* The Request a client makes: no header, no remote address, no cookie, no
\* certificate (peer_certs: <<>> is None, <<v>> is Some(v)).
EmptyRequest ==
    [headers |-> <<>>, remote |-> <<>>, cookies |-> {}, peer_certs |-> <<>>]

\* Request::add_header
add_header(r, h) == [r EXCEPT !.headers = Append(@, h)]

\* Request::set_remote
set_remote(r, a) == [r EXCEPT !.remote = <<a>>]

\* Request::cookies().add_original
add_original(r, k) ==
    [r EXCEPT !.cookies = @ \cup {[cookie |-> k, private |-> FALSE]}]

\* Request::cookies().add_original_private
add_original_private(r, k) ==
    [r EXCEPT !.cookies = @ \cup {[cookie |-> k, private |-> TRUE]}]

\* Request::set_peer_certificates
request_set_peer_certificates(r, certs) == [r EXCEPT !.peer_certs = <<certs>>]

\* Rc::new(request): one handle.
rc_new(r) == [req |-> r, strong |-> 1, freed |-> FALSE]

\* self.request.clone() without taking a new handle.
rc_clone_borrowed(e) == e

\* self.request.clone(): one more handle on the same Request.
rc_clone(e) == [e EXCEPT !.strong = @ + 1]

\* Dropping a LocalRequest or a LocalResponse drops its Rc<Request>: the
\* Request is freed with its last handle.
rc_drop(e) == [e EXCEPT !.strong = @ - 1, !.freed = (e.strong = 1)]

\* LocalRequest::new: data: vec![]. given is the body the test last gave,
\* taken the number of mut_dispatch calls since, passed the certificates
\* given to certificate(), calls the number of method calls.
new(id) ==
    [state |-> "live", request |-> id, data |-> <<>>, given |-> <<>>,
     taken |-> 0, passed |-> {}, calls |-> 0]

\* LocalRequest::inner: the Request behind the Rc.
inner == requests[local_request.request].req

\* LocalRequest::request_mut: the Request is written through ptr, whoever
\* else holds the Rc.
request_mut(r) == [requests EXCEPT ![local_request.request].req = r]

\* LocalRequest::certificate
certificate(r, cert) == request_set_peer_certificates(r, Append(<<>>, cert))

\* LocalRequest::cookies: add_original for each cookie of the vector.
RECURSIVE cookies(_, _)
cookies(r, ks) ==
    IF ks = <<>> THEN r ELSE cookies(add_original(r, Head(ks)), Tail(ks))

\* mut_dispatch that clones the body.
mut_dispatch_data_cloned(lr) == [self |-> lr, data |-> lr.data]

\* mut_dispatch: mem::replace(&mut self.data, vec![])
mut_dispatch_data(lr) == [self |-> [lr EXCEPT !.data = <<>>], data |-> lr.data]

\* cloned_dispatch that takes the body.
cloned_dispatch_data_taken(lr) ==
    [self |-> [lr EXCEPT !.data = <<>>], data |-> lr.data]

\* cloned_dispatch: req.data = self.data.clone()
cloned_dispatch_data(lr) == [self |-> lr, data |-> lr.data]

\* What Rocket::dispatch is handed: the Request (its identity and its
\* content at that time) and Data::local(data).
Handed(op, id, r, data, lr) ==
    [op |-> op, request |-> id, content |-> r, data |-> local(data),
     given |-> lr.given, nth |-> lr.taken]

\* The hand-off to Rocket::dispatch that came last.
Sent(h) == <<h>>

LocalResponse(id) == [request |-> id, live |-> TRUE]

Called == local_request' = [local_request EXCEPT !.calls = @ + 1]

CanCall == local_request.state = "live" /\ local_request.calls < MaxCalls

CanDispatch == local_request.state = "live" /\ Len(responses) < MaxResponses

\* Client::get and the like: LocalRequest::new
NewRequest ==
    /\ local_request.state = "none"
    /\ requests' = <<rc_new(EmptyRequest)>>
    /\ local_request' = new(1)
    /\ UNCHANGED <<data_vars, config_vars, responses, dispatched>>

Header(h) ==
    /\ CanCall
    /\ requests' = request_mut(add_header(inner, h))
    /\ Called
    /\ UNCHANGED <<data_vars, config_vars, responses, dispatched>>

AddHeader(h) ==
    /\ CanCall
    /\ requests' = request_mut(add_header(inner, h))
    /\ Called
    /\ UNCHANGED <<data_vars, config_vars, responses, dispatched>>

Remote(a) ==
    /\ CanCall
    /\ requests' = request_mut(set_remote(inner, a))
    /\ Called
    /\ UNCHANGED <<data_vars, config_vars, responses, dispatched>>

Cookie(k) ==
    /\ CanCall
    /\ requests' = request_mut(add_original(inner, k))
    /\ Called
    /\ UNCHANGED <<data_vars, config_vars, responses, dispatched>>

Cookies(ks) ==
    /\ CanCall
    /\ requests' = request_mut(cookies(inner, ks))
    /\ Called
    /\ UNCHANGED <<data_vars, config_vars, responses, dispatched>>

PrivateCookie(k) ==
    /\ CanCall
    /\ requests' = request_mut(add_original_private(inner, k))
    /\ Called
    /\ UNCHANGED <<data_vars, config_vars, responses, dispatched>>

Certificate(c) ==
    /\ CanCall
    /\ requests' = request_mut(certificate(inner, c))
    /\ local_request' = [local_request EXCEPT !.calls = @ + 1,
                                              !.passed = @ \cup {c}]
    /\ UNCHANGED <<data_vars, config_vars, responses, dispatched>>

Body(b) ==
    /\ CanCall
    /\ local_request' = [local_request EXCEPT !.calls = @ + 1, !.data = b,
                                              !.given = b, !.taken = 0]
    /\ UNCHANGED <<data_vars, config_vars, requests, responses, dispatched>>

SetBody(b) ==
    /\ CanCall
    /\ local_request' = [local_request EXCEPT !.calls = @ + 1, !.data = b,
                                              !.given = b, !.taken = 0]
    /\ UNCHANGED <<data_vars, config_vars, requests, responses, dispatched>>

\* dispatch(mut self): the LocalRequest is consumed and its Rc moves into
\* the LocalResponse.
Dispatch ==
    /\ CanDispatch
    /\ dispatched' = Sent(Handed("dispatch", local_request.request, inner,
                            local_request.data, local_request))
    /\ responses' = Append(responses, LocalResponse(local_request.request))
    /\ local_request' = [local_request EXCEPT !.state = "moved"]
    /\ UNCHANGED <<data_vars, config_vars, requests>>

\* cloned_dispatch(&self): a clone of the Request behind a new Rc, in a new
\* LocalRequest that is dispatched.
ClonedDispatch ==
    /\ CanDispatch
    /\ \E cd \in {cloned_dispatch_data(local_request)} :
        /\ local_request' = cd.self
        /\ requests' = Append(requests, rc_new(inner))
        /\ dispatched' = Sent(Handed("cloned_dispatch", Len(requests) + 1,
                                inner, cd.data, local_request))
        /\ responses' = Append(responses, LocalResponse(Len(requests) + 1))
    /\ UNCHANGED <<data_vars, config_vars>>

\* mut_dispatch(&mut self)
MutDispatch ==
    /\ CanDispatch
    /\ \E md \in {mut_dispatch_data(local_request)} :
        /\ local_request' = [md.self EXCEPT !.taken = @ + 1]
        /\ requests' = [requests EXCEPT ![local_request.request] = rc_clone(@)]
        /\ dispatched' = Sent(Handed("mut_dispatch", local_request.request,
                                inner, md.data, local_request))
        /\ responses' = Append(responses, LocalResponse(local_request.request))
    /\ UNCHANGED <<data_vars, config_vars>>

\* The test lets go of the LocalRequest.
DropLocalRequest ==
    /\ local_request.state = "live"
    /\ local_request' = [local_request EXCEPT !.state = "dropped"]
    /\ requests' = [requests EXCEPT ![local_request.request] = rc_drop(@)]
    /\ UNCHANGED <<data_vars, config_vars, responses, dispatched>>

\* The test lets go of a LocalResponse.
DropLocalResponse(i) ==
    /\ responses[i].live
    /\ responses' = [responses EXCEPT ![i].live = FALSE]
    /\ requests' = [requests EXCEPT ![responses[i].request] = rc_drop(@)]
    /\ UNCHANGED <<data_vars, config_vars, local_request, dispatched>>

LocalInit == Init /\ ctor = "local" /\ body = <<>>

LocalNext ==
    \/ NewRequest
    \/ \E h \in HeaderVals : Header(h)
    \/ \E h \in HeaderVals : AddHeader(h)
    \/ \E a \in Addrs : Remote(a)
    \/ \E k \in CookieVals : Cookie(k)
    \/ \E ks \in {<<"k1", "k2">>} : Cookies(ks)
    \/ \E k \in CookieVals : PrivateCookie(k)
    \/ \E c \in Certs : Certificate(c)
    \/ \E b \in Bodies : Body(b)
    \/ \E b \in Bodies : SetBody(b)
    \/ Dispatch
    \/ ClonedDispatch
    \/ MutDispatch
    \/ DropLocalRequest
    \/ \E i \in 1..Len(responses) : DropLocalResponse(i)

LocalSpec == LocalInit /\ [][LocalNext]_vars

\* ---------------------------------------------------------------------
\* ConfigBuilder (config/builder.rs)
\* ---------------------------------------------------------------------

\* Bound of a build: the number of setter calls on one builder.
MaxSetters == 3

\* What a program passes to the builder.
Environments == {"development", "production"}

Addresses == {"127.0.0.1", "123.123.123.123.123 whoops!"}

SecretKeys == {"8Xui8SN4mI+7egV/9dlfYYLGQJeEx4+DwmSQLwDVXJg=", "not a key"}

TlsPaths == {<<"/path/to/certs.pem", "/path/to/key.pem", <<>> >>,
             <<"/missing/certs.pem", "/path/to/key.pem", <<>> >>}

KeepAlives == {<<10>>, <<>>}

Extras == {<<"pi", 3>>, <<"pi", 4>>, <<"custom_dir", 3>>}

Fields ==
    {"environment", "address", "port", "workers", "keep_alive", "log_level",
     "secret_key", "tls", "limits", "root"}

\* Config's Result: Ok(config) and Err(error).
ConfigOk(c) == [kind |-> "ok", config |-> c]

ConfigErr(e) == [kind |-> "err", error |-> e]

\* The `?` of finalize: the error is returned, or the steps go on.
AndThen(res, F(_)) == IF res.kind = "err" THEN res ELSE F(res.config)

\* Config::default(env, cwd): the defaults of the environment (Option: <<>>
\* is None, <<v>> is Some(v); extras: a map from names to values).
ConfigDefault(env) ==
    [environment |-> env,
     address |-> IF env = "development" THEN "localhost" ELSE "0.0.0.0",
     port |-> IF env = "development" THEN 8000 ELSE 80,
     workers |-> 4,
     keep_alive |-> <<5>>,
     log_level |-> IF env = "development" THEN "normal" ELSE "critical",
     secret_key |-> "generated",
     tls |-> <<>>,
     limits |-> "default",
     extras |-> <<>>,
     root |-> "/cwd"]

\* Config::new(env): BadCWD when the current directory cannot be retrieved.
config_new(env, cwd_ok) ==
    IF cwd_ok THEN ConfigOk(ConfigDefault(env)) ELSE ConfigErr("BadCWD")

\* Which of the values given parse: the address as an IP address or a host
\* name, the key as a 256-bit base64 value; which TLS files can be read.
address_ok(a) == a # "123.123.123.123.123 whoops!"

key_ok(k) == k # "not a key"

tls_ok(t) == t[1] # "/missing/certs.pem"

\* Config::set_address: BadType when the address is no IP address or host.
set_address(c, a) ==
    IF address_ok(a) THEN ConfigOk([c EXCEPT !.address = a])
                     ELSE ConfigErr("BadType address")

\* Config::set_tls: an error when the certificates or the key cannot be read.
set_tls(c, t) ==
    IF tls_ok(t) THEN ConfigOk([c EXCEPT !.tls = <<t>>])
                 ELSE ConfigErr("BadFilePath tls")

\* Config::set_secret_key: BadType when the key is no 256-bit base64 value.
set_secret_key(c, k) ==
    IF key_ok(k) THEN ConfigOk([c EXCEPT !.secret_key = k])
                 ELSE ConfigErr("BadType secret_key")

\* Config::set_port, set_workers, set_keep_alive, set_log_level, set_extras,
\* set_root, set_limits, as finalize calls them one after the other.
set_infallible(c, b) ==
    [c EXCEPT !.port = b.port, !.workers = b.workers,
              !.keep_alive = b.keep_alive, !.log_level = b.log_level,
              !.extras = b.extras, !.root = b.root, !.limits = b.limits]

\* ConfigBuilder::new, once Config::new(environment) gave the defaults.
builder_new(config) ==
    [environment |-> config.environment,
     address |-> config.address,
     port |-> config.port,
     workers |-> config.workers,
     keep_alive |-> config.keep_alive,
     log_level |-> config.log_level,
     secret_key |-> <<>>,
     tls |-> <<>>,
     limits |-> config.limits,
     extras |-> config.extras,
     root |-> config.root]

\* The setters.
address(b, a) == [b EXCEPT !.address = a]

\* port() that writes the field next to it.
port_into_workers(b, p) == [b EXCEPT !.workers = p]

port(b, p) == [b EXCEPT !.port = p]

workers(b, w) == [b EXCEPT !.workers = w]

keep_alive(b, timeout) == [b EXCEPT !.keep_alive = timeout]

log_level(b, l) == [b EXCEPT !.log_level = l]

secret_key(b, key) == [b EXCEPT !.secret_key = <<key>>]

limits(b, l) == [b EXCEPT !.limits = l]

tls(b, t) == [b EXCEPT !.tls = <<t>>]

\* environment() that takes the defaults of the environment it sets.
environment_with_defaults(b, env) == builder_new(ConfigDefault(env))

environment(b, env) == [b EXCEPT !.environment = env]

root(b, path) == [b EXCEPT !.root = path]

\* HashMap::insert
Insert(map, name, value) ==
    [n \in DOMAIN map \cup {name} |-> IF n = name THEN value ELSE map[n]]

extra(b, name, value) == [b EXCEPT !.extras = Insert(@, name, value)]

\* finalize that ignores the error of set_secret_key.
finalize_key_unchecked(b, cwd_ok) ==
    AndThen(config_new(b.environment, cwd_ok), LAMBDA c0 :
    AndThen(set_address(c0, b.address), LAMBDA c1 :
    AndThen(IF b.tls # <<>> THEN set_tls(set_infallible(c1, b), b.tls[1])
                            ELSE ConfigOk(set_infallible(c1, b)), LAMBDA c2 :
    IF b.secret_key # <<>> /\ set_secret_key(c2, b.secret_key[1]).kind = "ok"
    THEN set_secret_key(c2, b.secret_key[1])
    ELSE ConfigOk(c2))))

\* ConfigBuilder::finalize
finalize(b, cwd_ok) ==
    AndThen(config_new(b.environment, cwd_ok), LAMBDA c0 :
    AndThen(set_address(c0, b.address), LAMBDA c1 :
    AndThen(IF b.tls # <<>> THEN set_tls(set_infallible(c1, b), b.tls[1])
                            ELSE ConfigOk(set_infallible(c1, b)), LAMBDA c2 :
    IF b.secret_key # <<>> THEN set_secret_key(c2, b.secret_key[1])
                           ELSE ConfigOk(c2))))

\* Result::expect: the Config, or a panic with the message.
result_expect(res, msg) ==
    IF res.kind = "ok" THEN res ELSE [kind |-> "panic", msg |-> msg]

\* ConfigBuilder::unwrap
unwrap(b, cwd_ok) ==
    result_expect(finalize(b, cwd_ok), "ConfigBuilder::unwrap() failed")

\* ConfigBuilder::expect
expect(b, cwd_ok, msg) == result_expect(finalize(b, cwd_ok), msg)

\* What the program did with the builder so far: the builder new() made,
\* the last argument of each setter (<<>>: never called), the last value
\* given to extra for each name.
NoCalls(b) ==
    [initial |-> b, last |-> [f \in Fields |-> <<>>], extras |-> <<>>,
     calls |-> 0]

Set(f, arg) ==
    history' = <<[history[1] EXCEPT !.last[f] = <<arg>>, !.calls = @ + 1]>>

CanSet == builder # <<>> /\ history[1].calls < MaxSetters

\* The builder is consumed: how, and what came out.
Outcome(via, b, cwd_ok, res) ==
    <<[via |-> via, builder |-> b, cwd_ok |-> cwd_ok, result |-> res]>>

\* Config::build(env): ConfigBuilder::new(env), which panics when the
\* current directory cannot be retrieved.
BuilderNew(env) ==
    /\ builder = <<>>
    /\ finalized = <<>>
    /\ \E cwd_ok \in BOOLEAN :
        \E res \in {config_new(env, cwd_ok)} :
            IF res.kind = "ok"
            THEN /\ builder' = <<builder_new(res.config)>>
                 /\ history' = <<NoCalls(builder_new(res.config))>>
                 /\ UNCHANGED finalized
            ELSE /\ finalized' =
                        Outcome("new", <<>>, cwd_ok,
                                result_expect(res, "ConfigBuilder::new(): couldn't get current directory."))
                 /\ UNCHANGED <<builder, history>>
    /\ UNCHANGED <<data_vars, test_vars>>

Address(a) ==
    /\ CanSet
    /\ builder' = <<address(builder[1], a)>>
    /\ Set("address", a)
    /\ UNCHANGED <<data_vars, test_vars, finalized>>

Port(p) ==
    /\ CanSet
    /\ builder' = <<port(builder[1], p)>>
    /\ Set("port", p)
    /\ UNCHANGED <<data_vars, test_vars, finalized>>

Workers(w) ==
    /\ CanSet
    /\ builder' = <<workers(builder[1], w)>>
    /\ Set("workers", w)
    /\ UNCHANGED <<data_vars, test_vars, finalized>>

KeepAlive(timeout) ==
    /\ CanSet
    /\ builder' = <<keep_alive(builder[1], timeout)>>
    /\ Set("keep_alive", timeout)
    /\ UNCHANGED <<data_vars, test_vars, finalized>>

LogLevel(l) ==
    /\ CanSet
    /\ builder' = <<log_level(builder[1], l)>>
    /\ Set("log_level", l)
    /\ UNCHANGED <<data_vars, test_vars, finalized>>

SecretKey(key) ==
    /\ CanSet
    /\ builder' = <<secret_key(builder[1], key)>>
    /\ Set("secret_key", key)
    /\ UNCHANGED <<data_vars, test_vars, finalized>>

Limits(l) ==
    /\ CanSet
    /\ builder' = <<limits(builder[1], l)>>
    /\ Set("limits", l)
    /\ UNCHANGED <<data_vars, test_vars, finalized>>

Tls(t) ==
    /\ CanSet
    /\ builder' = <<tls(builder[1], t)>>
    /\ Set("tls", t)
    /\ UNCHANGED <<data_vars, test_vars, finalized>>

Environment(env) ==
    /\ CanSet
    /\ builder' = <<environment(builder[1], env)>>
    /\ Set("environment", env)
    /\ UNCHANGED <<data_vars, test_vars, finalized>>

Root(path) ==
    /\ CanSet
    /\ builder' = <<root(builder[1], path)>>
    /\ Set("root", path)
    /\ UNCHANGED <<data_vars, test_vars, finalized>>

Extra(name, value) ==
    /\ CanSet
    /\ builder' = <<extra(builder[1], name, value)>>
    /\ history' = <<[history[1] EXCEPT
                        !.extras = Insert(@, name, value), !.calls = @ + 1]>>
    /\ UNCHANGED <<data_vars, test_vars, finalized>>

Finalize ==
    /\ builder # <<>>
    /\ \E cwd_ok \in BOOLEAN :
        finalized' = Outcome("finalize", builder[1], cwd_ok,
                             finalize(builder[1], cwd_ok))
    /\ builder' = <<>>
    /\ UNCHANGED <<data_vars, test_vars, history>>

Unwrap ==
    /\ builder # <<>>
    /\ \E cwd_ok \in BOOLEAN :
        finalized' = Outcome("unwrap", builder[1], cwd_ok,
                             unwrap(builder[1], cwd_ok))
    /\ builder' = <<>>
    /\ UNCHANGED <<data_vars, test_vars, history>>

Expect(msg) ==
    /\ builder # <<>>
    /\ \E cwd_ok \in BOOLEAN :
        finalized' = Outcome("expect", builder[1], cwd_ok,
                             expect(builder[1], cwd_ok, msg))
    /\ builder' = <<>>
    /\ UNCHANGED <<data_vars, test_vars, history>>

ConfigInit == Init /\ ctor = "local" /\ body = <<>>

ConfigNext ==
    \/ \E env \in Environments : BuilderNew(env)
    \/ \E a \in Addresses : Address(a)
    \/ \E p \in {700} : Port(p)
    \/ \E w \in {12} : Workers(w)
    \/ \E timeout \in KeepAlives : KeepAlive(timeout)
    \/ \E l \in {"debug"} : LogLevel(l)
    \/ \E key \in SecretKeys : SecretKey(key)
    \/ \E l \in {"json 5MiB"} : Limits(l)
    \/ \E t \in TlsPaths : Tls(t)
    \/ \E env \in Environments : Environment(env)
    \/ \E path \in {"/my_app/dir"} : Root(path)
    \/ \E e \in Extras : Extra(e[1], e[2])
    \/ Finalize
    \/ Unwrap
    \/ \E msg \in {"the configuration is bad!"} : Expect(msg)

ConfigSpec == ConfigInit /\ [][ConfigNext]_vars

\* C21: mut_dispatch hands the handler the body the LocalRequest holds and
\* leaves it with an empty body: of the mut_dispatch calls that follow one
\* body / set_body call (or the construction), the first hands over the body
\* given and every later one an empty body.
C21_MutDispatch ==
    /\ local_request.taken > 0 => local_request.data = <<>>
    /\ dispatched # <<>> /\ dispatched[1].op = "mut_dispatch"
            => /\ dispatched[1].data.buffer =
                    (IF dispatched[1].nth = 0 THEN dispatched[1].given
                                              ELSE <<>>)
               /\ dispatched[1].data.is_complete

C21_Witness ==
    /\ dispatched # <<>>
    /\ dispatched[1].op = "mut_dispatch"
    /\ dispatched[1].nth = 1
    /\ dispatched[1].given = <<2, 3>>
    /\ dispatched[1].data.buffer = <<>>
    /\ Len(responses) = 2

\* C22: cloned_dispatch leaves the LocalRequest as it was: its body, its
\* Request and the handles on it are the same after the call; what is
\* dispatched is a Request with the same content and the same body; and a
\* dispatch that follows cloned_dispatch calls sends the body last given.
C22_ClonedFrame ==
    /\ [][(/\ Len(responses') = Len(responses) + 1
            /\ dispatched'[1].op = "cloned_dispatch")
            => /\ local_request' = local_request
               /\ \A i \in 1..Len(requests) : requests'[i] = requests[i]
               /\ dispatched'[1].content = inner
               /\ dispatched'[1].data.buffer = local_request.data
               /\ dispatched'[1].request # local_request.request]_vars
    /\ [](dispatched # <<>> /\ dispatched[1].op = "dispatch"
              /\ dispatched[1].nth = 0
            => dispatched[1].data.buffer = dispatched[1].given)

C22_Witness ==
    /\ dispatched # <<>>
    /\ dispatched[1].op = "dispatch"
    /\ dispatched[1].data.buffer = <<2, 3>>
    /\ Len(requests) = 2
    /\ requests[2].req = requests[1].req
    /\ requests[1].req.headers # <<>>
    /\ Len(responses) = 2

\* C23: after any sequence of certificate calls on a LocalRequest, every
\* certificate passed to one of them is among the peer certificates of the
\* request.
C23_CertificateAdds ==
    local_request.state # "none"
        => \A c \in local_request.passed :
              /\ inner.peer_certs # <<>>
              /\ \E i \in 1..Len(inner.peer_certs[1]) :
                     inner.peer_certs[1][i] = c

\* The value the program last gave a field of the builder: the argument of
\* the last call of its setter, or what new() put there.
LastGiven(f) ==
    IF history[1].last[f] = <<>> THEN history[1].initial[f]
                                 ELSE history[1].last[f][1]

\* C24: the Config a successful finalize returns has, as environment,
\* address, port, workers, keep_alive, log_level, root and limits, the
\* argument of the last call of the setter of that name, or the value new()
\* gave the builder when the setter was never called; its extras hold every
\* name given to extra, with the value of the last call for that name.
C24_Finalize ==
    finalized # <<>> /\ finalized[1].via = "finalize"
        /\ finalized[1].result.kind = "ok"
    => /\ \A f \in Fields \ {"secret_key", "tls"} :
              finalized[1].result.config[f] = LastGiven(f)
       /\ \A n \in DOMAIN history[1].extras :
              /\ n \in DOMAIN finalized[1].result.config.extras
              /\ finalized[1].result.config.extras[n] = history[1].extras[n]

C24_Witness ==
    /\ finalized # <<>>
    /\ finalized[1].via = "finalize"
    /\ finalized[1].result.kind = "ok"
    /\ history[1].last["port"] = <<700>>
    /\ history[1].last["workers"] = <<>>
    /\ finalized[1].result.config.port = 700
    /\ finalized[1].result.config.workers = 4
    /\ history[1].calls = 3
    /\ finalized[1].result.config.extras = [n \in {"pi"} |-> 4]

\* C25: finalize returns an error, and no Config, when the address does not
\* parse, when a secret key was set and does not parse, and when a TLS
\* configuration was set and cannot be applied; a key or a TLS configuration
\* that was not set causes no error; unwrap and expect panic exactly when
\* finalize returns an error, and return the Config of finalize otherwise.
C25_FinalizeErrors ==
    finalized # <<>> /\ finalized[1].via # "new"
    => \E f \in {finalized[1]} : \E b \in {f.builder} :
        /\ f.via = "finalize"
            => /\ ~address_ok(b.address) => f.result.kind = "err"
               /\ b.secret_key # <<>> /\ ~key_ok(b.secret_key[1])
                    => f.result.kind = "err"
               /\ b.tls # <<>> /\ ~tls_ok(b.tls[1]) => f.result.kind = "err"
               /\ f.result.kind = "err" => DOMAIN f.result = {"kind", "error"}
               /\ f.result.kind \in {"ok", "err"}
               /\ (/\ f.cwd_ok
                   /\ address_ok(b.address)
                   /\ b.secret_key = <<>> \/ key_ok(b.secret_key[1])
                   /\ b.tls = <<>> \/ tls_ok(b.tls[1]))
                    => f.result.kind = "ok"
        /\ f.via \in {"unwrap", "expect"}
            => /\ f.result.kind = "panic" <=> finalize(b, f.cwd_ok).kind = "err"
               /\ f.result.kind # "panic" => f.result = finalize(b, f.cwd_ok)

C25_Witness ==
    /\ finalized # <<>>
    /\ finalized[1].via = "unwrap"
    /\ finalized[1].result.kind = "panic"
    /\ finalized[1].cwd_ok
    /\ finalized[1].builder.secret_key = <<"not a key">>
    /\ finalized[1].builder.tls # <<>>
    /\ tls_ok(finalized[1].builder.tls[1])
    /\ address_ok(finalized[1].builder.address)

\* The entity Data::new returns inside from_hyp, before from_hyp has attached
\* the chain to it.
Prefetched == New(http_stream(encoding), inner_data(conn))

\* C26 as stated: no body byte is read, the prefetch of construction
\* included, before the chain is attached to the entity: the entity whose
\* prefetch has read bytes carries the chain of its transport.
C26_Original ==
    phase = "start" /\ ctor = "hyp" /\ from_hyp_outcome(transport) = "alive"
        => \E d \in {Prefetched} :
              (d.c.pos - hyper_pos) + d.c.npos > 0 => d.peer_certs = Attached

\* C26: the chain is taken from the transport before any body byte is read
\* and attached to the entity once, inside from_hyp, after the prefetch of
\* Data::new: the prefetched entity has no chain yet, from_hyp attaches the
\* chain of the transport to it and changes nothing else, the chain changes
\* in no later step, and every read made through the entity after its
\* construction finds the chain attached.
C26_ChainBeforeRead ==
    /\ [](phase = "start" /\ ctor = "hyp"
              /\ from_hyp_outcome(transport) = "alive"
            => \E d \in {Prefetched} :
                \E a \in {from_hyp_data(d, cert_info(transport))} :
                  /\ d.peer_certs = <<>>
                  /\ a.peer_certs = Attached
                  /\ a = [d EXCEPT !.peer_certs = Attached])
    /\ [][peer_certs' # peer_certs => phase = "start" /\ phase' = "alive"]_vars
    /\ [][phase # "start" /\ Consumed' > Consumed
            => peer_certs = Attached /\ peer_certs' = peer_certs]_vars

C26_Witness ==
    /\ phase \in {"open", "done"}
    /\ transport.net = "https"
    /\ peer_certs = << <<"leaf", "ca">> >>
    /\ prefetch = "ok"
    /\ Len(buffer) = 0
    /\ Consumed > PEEK_BYTES

\* All that the reader from_hyp builds under the body reader yields, read
\* to its end or to its first error.
ChainAll ==
    read_max([kind |-> "Eof", n |-> 0, src |-> "conn"], inner_data(conn),
             Len(hyper_buf) + Len(net_data) + 1)

\* C27: the reader from_hyp builds yields the bytes the parser had buffered
\* and not consumed (from pos to the end of its buffer), then the bytes of
\* the network stream, each once and in order, and never a byte before pos:
\* read to its end it yields exactly those bytes (up to the first read
\* error), and at every moment the next read yields the bytes that follow
\* the ones consumed so far, the network being read only once the buffer
\* is exhausted.
C27_ChainOrder ==
    ctor = "hyp"
    => /\ phase = "start"
            => \E r \in {ChainAll} :
                  /\ IsPrefix(r.data, Wire)
                  /\ fail_at = -1 => r.data = Wire /\ ~r.err
                  /\ fail_at >= 0
                        => /\ r.err
                           /\ Len(r.data) = Len(hyper_buf) - hyper_pos + fail_at
       /\ Built
            => /\ conn.pos >= hyper_pos
               /\ conn.pos <= Len(hyper_buf)
               /\ conn.npos > 0 => conn.pos = Len(hyper_buf)
               /\ \A k \in {1, AppRead} :
                    \E r \in {ChainRead("conn", conn, k)} :
                      /\ r.data = SubSeq(Wire, Consumed + 1,
                                         Consumed + Len(r.data))
                      /\ r.c.pos - conn.pos + r.c.npos - conn.npos
                            = Len(r.data)

C27_Witness ==
    /\ phase = "open"
    /\ hyper_pos = HdrLen
    /\ Len(hyper_buf) = HdrLen + MaxPre
    /\ conn.pos = Len(hyper_buf)
    /\ conn.npos > PEEK_BYTES
    /\ conn.npos < Len(net_data)
    /\ ~ds_err

\* A live LocalResponse holds the Request the LocalRequest writes to.
Shared ==
    /\ local_request.state = "live"
    /\ \E i \in 1..Len(responses) :
          responses[i].live /\ responses[i].request = local_request.request

\* Everything stored in request r is still stored, at the same place, in
\* request q; the remote address, a Copy value, may differ.
Stable(r, q) ==
    /\ IsPrefix(r.headers, q.headers)
    /\ r.cookies \subseteq q.cookies
    /\ r.peer_certs # <<>>
          => q.peer_certs # <<>> /\ IsPrefix(r.peer_certs[1], q.peer_certs[1])

\* C28: while a LocalResponse shares the Request with the LocalRequest, no
\* method of the LocalRequest removes or replaces what the Request stores,
\* except Copy values such as the remote address: every step only adds.
C28_StableMutations == [][Shared => Stable(inner, inner')]_vars

\* The LocalResponses that are accessible and were produced from request id.
ResponsesOf(id) ==
    {i \in 1..Len(responses) : responses[i].live /\ responses[i].request = id}

\* The number of owners of request id: the LocalRequest, while the test has
\* it, and the accessible LocalResponses.
Holders(id) ==
    Cardinality(ResponsesOf(id))
        + (IF local_request.state = "live" /\ local_request.request = id
           THEN 1 ELSE 0)

\* C29: a Request stays alive as long as a LocalResponse produced from it is
\* accessible: each LocalResponse holds a handle on the Request it was
\* dispatched with, the handles of a Request are as many as its owners, and
\* the Request is freed only when the LocalRequest and all its
\* LocalResponses are gone.
C29_RequestAlive ==
    /\ \A id \in 1..Len(requests) :
          /\ requests[id].strong = Holders(id)
          /\ requests[id].freed <=> Holders(id) = 0
          /\ ResponsesOf(id) # {} => ~requests[id].freed
    /\ dispatched # <<>>
          => responses[Len(responses)].request = dispatched[1].request

C29_Witness ==
    /\ Len(responses) = 2
    /\ local_request.state = "dropped"
    /\ responses[1].request = 1 /\ ~responses[1].live
    /\ responses[2].request = 1 /\ responses[2].live
    /\ requests[1].strong = 1
    /\ ~requests[1].freed

\* C30: no body byte is lost by construction: in every outcome of the
\* prefetch (buffer filled, end of body, read error after some bytes were
\* read) the peek buffer holds every byte the prefetch took out of the
\* reader, and the peek buffer followed by what the reader still yields is
\* the body, whole when no read fails.
C30_NoByteLost ==
    /\ phase = "start" /\ ctor = "hyp" /\ from_hyp_outcome(transport) = "alive"
        => \E r \in {read_max(http_stream(encoding), inner_data(conn),
                               PEEK_BYTES)} :
              new_peek_buf(r) = r.data
    /\ phase = "alive" /\ ctor = "hyp" /\ WellFormed
            /\ encoding.kind \in {"Sized", "Chunked", "Eof"}
        => /\ IsPrefix(Whole.data, body)
           /\ fail_at = -1 => Whole.data = body

\* The fields of a builder that take the defaults of an environment.
Defaulted == {"address", "port", "workers", "keep_alive", "log_level", "limits"}

\* C31: each setter changes only its own field of the builder: in a setter
\* step a field changes only if it is the one whose setter was called (extra
\* changes only extras). Hence a field whose setter was never called has
\* the value new() gave it: address, port, workers, keep_alive, log_level
\* and limits keep the defaults of the environment given to new(), also
\* after environment(env) and in the Config of finalize, and secret_key and
\* tls stay unset until their own setters are called.
C31_OwnField ==
    /\ [][builder # <<>> /\ builder' # <<>>
            => /\ \A f \in Fields :
                    builder'[1][f] # builder[1][f]
                        => history'[1].last[f] # history[1].last[f]
               /\ builder'[1].extras # builder[1].extras
                    => /\ history'[1].extras # history[1].extras
                       /\ history'[1].last = history[1].last]_vars
    /\ [](builder # <<>>
            => /\ history[1].initial =
                    builder_new(ConfigDefault(history[1].initial.environment))
               /\ \A f \in Fields :
                    history[1].last[f] = <<>>
                        => builder[1][f] = history[1].initial[f]
               /\ \A f \in {"secret_key", "tls"} :
                    history[1].last[f] = <<>> => builder[1][f] = <<>>)
    /\ [](finalized # <<>> /\ finalized[1].via = "finalize"
              /\ finalized[1].result.kind = "ok"
            => /\ \A f \in Defaulted :
                    history[1].last[f] = <<>>
                        => finalized[1].result.config[f] =
                            ConfigDefault(history[1].initial.environment)[f]
               /\ history[1].last["secret_key"] = <<>>
                    => finalized[1].result.config.secret_key = "generated"
               /\ history[1].last["tls"] = <<>>
                    => finalized[1].result.config.tls = <<>>)

C31_Witness ==
    /\ finalized # <<>>
    /\ finalized[1].via = "finalize"
    /\ finalized[1].result.kind = "ok"
    /\ history[1].initial.environment = "development"
    /\ history[1].last["environment"] = <<"production">>
    /\ history[1].last["workers"] = <<12>>
    /\ finalized[1].result.config.environment = "production"
    /\ finalized[1].result.config.workers = 12
    /\ finalized[1].result.config.port = 8000
    /\ finalized[1].result.config.address = "localhost"
    /\ finalized[1].result.config.log_level = "normal"

====
